---------------------------- MODULE Spec2Model ----------------------------
(***************************************************************************)
(* A model of ext/ox/builder.c, the streaming XML builder of Ox.           *)
(*                                                                         *)
(* Bytes are the naturals 0..255 and every string of the program (element  *)
(* names, attribute keys and values, text payloads, the sink's content) is *)
(* a sequence of bytes.  The Buf of buf.h is not part of builder.c; it is  *)
(* modelled by its contract: the sequence of all bytes appended so far.    *)
(*                                                                         *)
(* Callers are well typed: names and keys are strings or symbols, payloads *)
(* are strings, and no identifier holds a NUL byte.                        *)
(***************************************************************************)
EXTENDS Integers, Sequences, FiniteSets, TLC

\* ------------------------------------------------------------------ bounds

\* Steps (calls, body returns, body raises) of one behaviour of Spec.
MaxCalls == 4
\* Longest text payload drawn by SpecText, in bytes.
MaxTextLen == 3
\* SpecText also draws payloads that start with a run of LOCAL_BUF_SIZE - 2
\* up to LOCAL_BUF_SIZE - 2 + LongRunSpan safe bytes, around the capacity of
\* append_string's local buffer.
LongRunSpan == 1
\* SpecDeep: other operations start DeepSlack levels below MAX_DEPTH and a
\* behaviour takes at most MAX_DEPTH + DeepExtra steps.
DeepSlack == 1
DeepExtra == 3
\* Steps of one behaviour of SpecAttr.
MaxAttrCalls == 4
\* Steps of one behaviour of SpecIndent.
MaxIndentCalls == 5
\* Steps of one behaviour of SpecHeap.
MaxHeapCalls == 4

\* ------------------------------------------------------- program constants

MAX_DEPTH == 128
\* sizeof(buf) of append_string's local buffer.
LOCAL_BUF_SIZE == 256
\* sizeof(indent_spaces): newline, 128 spaces and the terminating NUL.
INDENT_SPACES_SIZE == 130
\* sizeof(e->buf), the inline storage of a frame's name.
NAME_BUF_SIZE == 64

\* Bytes the code names.
NUL == 0
NL == 10
SP == 32
BANG == 33
QUOT == 34
AMP == 38
APOS == 39
DASH == 45
SLASH == 47
SEMI == 59
LT == 60
EQ == 61
GT == 62
QUESTION == 63

\* The entries of xml_friendly_chars are the characters '1' '4' '5' '6' ':'.
CH_0 == 48
CH_1 == 49
CH_COLON == 58

\* ----------------------------------------------------------------- strings

\* The bytes of the C string literals the code writes.
STR_quot == <<AMP, 113, 117, 111, 116, SEMI>>
STR_amp == <<AMP, 97, 109, 112, SEMI>>
STR_apos == <<AMP, 97, 112, 111, 115, SEMI>>
STR_lt == <<AMP, 108, 116, SEMI>>
STR_gt == <<AMP, 103, 116, SEMI>>
STR_close_open == <<LT, SLASH>>
STR_self_close == <<SLASH, GT>>
STR_eq_quot == <<EQ, QUOT>>
STR_comment_open == <<LT, BANG, DASH, DASH, SP>>
STR_comment_close == <<SP, DASH, DASH, SLASH, GT, SP>>
STR_doctype_open == <<LT, BANG, 68, 79, 67, 84, 89, 80, 69, SP>>
STR_cdata_open == <<LT, BANG, 91, 67, 68, 65, 84, 65, 91>>
STR_cdata_close == <<93, 93, GT>>
STR_xml_decl == <<LT, QUESTION, 120, 109, 108, QUESTION, GT>>

\* The first n bytes of s (buf_append_string(b, s, n) with n <= strlen(s)).
Take(s, n) == SubSeq(s, 1, n)

\* n spaces.
Spaces(n) == [i \in 1..n |-> SP]

\* indent_spaces without its terminating NUL: a newline and 128 spaces.
indent_spaces == <<NL>> \o Spaces(INDENT_SPACES_SIZE - 2)

\* ----------------------------------------------------------------- escaper

\* xml_friendly_chars[c]: the table entry (a character code) of byte c.
xml_friendly_chars(c) ==
    IF c \in (0..8) \cup {11, 12} \cup (14..31) THEN CH_COLON
    ELSE IF c = QUOT THEN CH_0 + 6
    ELSE IF c = AMP THEN CH_0 + 5
    ELSE IF c = APOS THEN CH_0 + 6
    ELSE IF c = LT THEN CH_0 + 4
    ELSE IF c = GT THEN CH_0 + 4
    ELSE CH_1

\* How many bytes of str have the table entry v.
EntryCount(str, v) == Cardinality({i \in 1..Len(str) : xml_friendly_chars(str[i]) = v})

\* The loop of xml_str_len: the sum of the table entries of the bytes of
\* str, taken entry value by entry value.
xml_str_len_sum(str) ==
      EntryCount(str, CH_1) * CH_1
    + EntryCount(str, CH_0 + 4) * (CH_0 + 4)
    + EntryCount(str, CH_0 + 5) * (CH_0 + 5)
    + EntryCount(str, CH_0 + 6) * (CH_0 + 6)
    + EntryCount(str, CH_COLON) * CH_COLON

\* xml_str_len: size - len * '0', where the loop has counted len down to 0.
xml_str_len(str) ==
    LET len == 0
    IN  xml_str_len_sum(str) - len * CH_0

\* The switch of append_string with "&gt;" written for '<'.
Entity_lt_as_gt(c) ==
    IF c = QUOT THEN STR_quot
    ELSE IF c = AMP THEN STR_amp
    ELSE IF c = APOS THEN STR_apos
    ELSE IF c = LT THEN STR_gt
    ELSE IF c = GT THEN STR_gt
    ELSE <<>>

\* The entity the switch of append_string writes for byte c, <<>> when the
\* switch reaches its default and raises.
Entity(c) ==
    IF c = QUOT THEN STR_quot
    ELSE IF c = AMP THEN STR_amp
    ELSE IF c = APOS THEN STR_apos
    ELSE IF c = LT THEN STR_lt
    ELSE IF c = GT THEN STR_gt
    ELSE <<>>

\* The loop test of the slow path: '\0' != *str && 0 < i, at byte index i.
SlowLoopRuns(str, i) == i <= Len(str) /\ str[i] # NUL

\* Whether the slow path copies byte c: its table entry is '1'.
IsSafe(c) == CH_1 = xml_friendly_chars(c)

\* The end of the run of bytes from i on that the loop copies one by one:
\* the first index from i at which the loop stops or meets a byte to replace.
RunEnd(str, i) ==
    LET stops == {k \in i..(Len(str) + 1) : ~(SlowLoopRuns(str, k) /\ IsSafe(str[k]))}
    IN  CHOOSE j \in stops : \A k \in stops : j <= k

\* The slow path of append_string from byte i on: lbuf is the local buffer,
\* out the bytes already handed to the Buf.  A run of copied bytes is taken
\* in one step up to the point where the buffer is full (end <= bp) and is
\* flushed by the next byte copied.  The result is [out, raised].
RECURSIVE append_string_slow(_, _, _, _)
append_string_slow(str, i, lbuf, out) ==
    IF ~SlowLoopRuns(str, i)
    THEN [out |-> out \o lbuf, raised |-> FALSE]
    ELSE IF IsSafe(str[i])
    THEN LET j    == RunEnd(str, i)
             room == (LOCAL_BUF_SIZE - 1) - Len(lbuf)
         IN  IF j - i <= room
             THEN append_string_slow(str, j, lbuf \o SubSeq(str, i, j - 1), out)
             ELSE append_string_slow(str, i + room, <<>>,
                                     out \o lbuf \o SubSeq(str, i, i + room - 1))
    ELSE IF Entity(str[i]) = <<>>
    THEN [out |-> out \o lbuf, raised |-> TRUE]
    ELSE append_string_slow(str, i + 1, <<>>, out \o lbuf \o Entity(str[i]))

\* The test of append_string for the verbatim copy: size == xsize.
copies_verbatim(str) == Len(str) = xml_str_len(str)

\* append_string: the bytes appended to the Buf and whether it raised.
append_string(str) ==
    IF copies_verbatim(str)
    THEN [out |-> str, raised |-> FALSE]
    ELSE append_string_slow(str, 1, <<>>, <<>>)

\* ------------------------------------------------------------------- state

VARIABLES
    kind,       \* the constructor that made the builder: "memory" (builder_new),
                \* "file" (builder_file) or "descriptor" (builder_io)
    fd,         \* b->buf.fd: 0 for a memory builder, else the descriptor written to
    file,       \* b->file: "NULL", or "FILE" for the FILE* builder_file opened
    fcloses,    \* how many times fclose(b->file) has been called
    indent,     \* b->indent
    encoding,   \* b->encoding
    depth,      \* b->depth
    stack,      \* b->stack[0..depth], the frames in use (at most MAX_DEPTH)
    sink,       \* every byte appended to b->buf so far
    blocks,     \* the element() calls whose body is running, outermost first
    last,       \* the last call that returned or raised
    heap,       \* heap.blocks[p]: how many times free() was called on the p-th
                \* block strdup returned; heap.builder: "live", or "freed" once
                \* builder_free has released the struct
    nsteps,     \* steps taken so far
    crashed     \* the process has died of undefined behaviour

vars == <<kind, fd, file, fcloses, indent, encoding, depth, stack, sink, blocks,
          last, heap, nsteps, crashed>>

\* A frame as builder_element initialises it.  name_at is where e->name
\* points: 0 for e->buf, else the heap block strdup returned.
Element(name, at) ==
    [name |-> name, len |-> Len(name), has_child |-> FALSE, non_text_child |-> FALSE,
     name_at |-> at]

\* What a read of b->stack[d] with MAX_DEPTH <= d, past the end of the array,
\* may find.
GarbageFrames ==
    [name : {<<QUESTION>>}, len : {1}, has_child : BOOLEAN, non_text_child : BOOLEAN,
     name_at : {0}]

\* &b->stack[d] as the code reads it: the frame when d is an index of the
\* array, else whatever lies outside it.
FrameAt(st, d) == IF 0 <= d /\ d < MAX_DEPTH THEN {st[d + 1]} ELSE GarbageFrames

\* b->stack with frame d replaced by e; a write past the end of the array
\* does not reach the frames in use.
StoreFrame(st, d, e) == IF d < MAX_DEPTH THEN [st EXCEPT ![d + 1] = e] ELSE st

\* The record left in `last` by a call: its name, how it ended, its text
\* argument, the depth when it was entered and, for element(), the
\* attributes it was given.
Ret(op, status, arg, d0, body) ==
    [op |-> op, status |-> status, arg |-> arg, d0 |-> d0, body |-> body,
     attrs |-> <<>>]

\* The record left by element(name, attrs).
RetElement(op, status, name, attrs, d0) ==
    [Ret(op, status, name, d0, IF op = "yield" THEN "running" ELSE "none")
        EXCEPT !.attrs = attrs]

\* What io.fileno may answer to builder_io: 0, or a descriptor above the
\* standard ones.
IoFilenos == {0, 3}

\* The test of builder_io on the descriptor: it raises IOError on 0 and no
\* builder is made.
builder_io_rejects(f) == 0 = f

\* What builder_new, builder_file and builder_io hand to init(): the
\* descriptor, the FILE* and the :indent option (0, or 2 spaces a level).
\* fileno of the file builder_file has just opened is above the standard
\* descriptors, which the interpreter holds open.
Constructions ==
    { [kind |-> "memory", fd |-> 0, file |-> "NULL", indent |-> 0],
      [kind |-> "memory", fd |-> 0, file |-> "NULL", indent |-> 2],
      [kind |-> "file", fd |-> 3, file |-> "FILE", indent |-> 0] }
    \cup { [kind |-> "descriptor", fd |-> f, file |-> "NULL", indent |-> 2] :
             f \in {g \in IoFilenos : ~builder_io_rejects(g)} }

\* The builder as init() leaves it, constructed in one of the ways of C.
InitOf(C) ==
    /\ \E c \in C : kind = c.kind /\ fd = c.fd /\ file = c.file /\ indent = c.indent
    /\ fcloses = 0
    /\ encoding = <<>>
    /\ depth = -1
    /\ stack = <<>>
    /\ sink = <<>>
    /\ blocks = <<>>
    /\ last = Ret("new", "ok", <<>>, -1, "none")
    /\ heap = [blocks |-> <<>>, builder |-> "live"]
    /\ nsteps = 0
    /\ crashed = FALSE

Init == InitOf(Constructions)

\* ------------------------------------------------------------ stack helpers

\* The test of append_indent for "something has been written": head < tail.
BufNonEmpty(s) == Len(s) > 0

\* The largest int, and 2^16: an int is kept as two halves of 16 bits where
\* its arithmetic is followed past the range of int.
INT_MAX == 2147483647
HALF_WORD == 65536

\* a * n as int multiplication yields it when it wraps around, for an int a
\* and 0 <= n: the product modulo 2^32, taken in the range of int.
IntMul(a, n) ==
    LET lo == (a % HALF_WORD) * n
        hi == (((a \div HALF_WORD) * n) + (lo \div HALF_WORD)) % HALF_WORD
    IN  IF hi >= (HALF_WORD \div 2)
        THEN ((hi - HALF_WORD) * HALF_WORD) + (lo % HALF_WORD)
        ELSE (hi * HALF_WORD) + (lo % HALF_WORD)

\* x + 1 as int addition yields it when it wraps around.
IntInc(x) == IF x = INT_MAX THEN (-INT_MAX) - 1 ELSE x + 1

\* Whether (a * n) + 1 leaves the range of int, for 0 <= a and 0 <= n.
IndentOverflows(a, n) ==
    /\ n > 0
    /\ \/ a > INT_MAX \div n
       \/ a = INT_MAX \div n /\ (INT_MAX % n) = 0

\* append_indent with buffer content s and b->depth = d: the bytes appended.
\* The arithmetic is that of int; the comparison converts cnt to size_t, so
\* a negative cnt counts as large.
append_indent(s, d) ==
    IF 0 = indent THEN <<>>
    ELSE IF BufNonEmpty(s)
    THEN LET cnt == IntInc(IntMul(indent, d + 1))
         IN  IF cnt < 0 \/ INDENT_SPACES_SIZE <= cnt
             THEN Take(indent_spaces, INDENT_SPACES_SIZE - 1)
             ELSE Take(indent_spaces, cnt)
    ELSE <<>>

\* i_am_a_child that commits the frame for a non-text child only.
i_am_a_child_non_text_only(d, e, is_text) ==
    IF 0 <= d /\ ~is_text
    THEN [out |-> IF ~e.has_child THEN <<GT>> ELSE <<>>,
          e   |-> [e EXCEPT !.has_child = TRUE, !.non_text_child = TRUE]]
    ELSE [out |-> <<>>, e |-> e]

\* i_am_a_child that writes `>` whether or not the frame has a child yet.
i_am_a_child_always_terminates(d, e, is_text) ==
    IF 0 <= d
    THEN [out |-> <<GT>>,
          e   |-> [e EXCEPT !.has_child = TRUE,
                            !.non_text_child = @ \/ ~is_text]]
    ELSE [out |-> <<>>, e |-> e]

\* i_am_a_child that sets non_text_child whatever is_text is.
i_am_a_child_ignores_is_text(d, e, is_text) ==
    IF 0 <= d
    THEN [out |-> IF ~e.has_child THEN <<GT>> ELSE <<>>,
          e   |-> [e EXCEPT !.has_child = TRUE, !.non_text_child = TRUE]]
    ELSE [out |-> <<>>, e |-> e]

\* i_am_a_child on frame e (the frame at b->depth, read only when 0 <= d):
\* the bytes appended and the frame as it is left.
i_am_a_child(d, e, is_text) ==
    IF 0 <= d
    THEN [out |-> IF ~e.has_child THEN <<GT>> ELSE <<>>,
          e   |-> [e EXCEPT !.has_child = TRUE,
                            !.non_text_child = @ \/ ~is_text]]
    ELSE [out |-> <<>>, e |-> e]

\* The frames i_am_a_child may find at b->depth; none is read when d < 0.
ParentAt(st, d) == IF 0 <= d THEN FrameAt(st, d) ELSE {Element(<<>>, 0)}

\* The stack after i_am_a_child has left e in frame d.
StoreParent(st, d, e) == IF 0 <= d THEN StoreFrame(st, d, e) ELSE st

\* The guard of pop, off by one: it lets a pop at depth -1 through.
pop_underflow_off_by_one(d) == 0 > d + 1

\* The guard of pop: 0 > b->depth raises "closed to many element".
pop_underflow(d) == 0 > d

\* pop_token testing non_text_child where pop tests has_child.
pop_token_wrong_flag(s, d, e) ==
    IF e.non_text_child
    THEN append_indent(s, d) \o STR_close_open \o Take(e.name, e.len) \o <<GT>>
    ELSE STR_self_close

\* pop_token indenting as for a child of the frame it closes, as pop would
\* with append_indent ahead of b->depth--.
pop_token_indents_deeper(s, d, e) ==
    IF e.has_child
    THEN (IF e.non_text_child THEN append_indent(s, d + 1) ELSE <<>>)
         \o STR_close_open \o Take(e.name, e.len) \o <<GT>>
    ELSE STR_self_close

\* The closing token pop writes for frame e once b->depth is d.
pop_token(s, d, e) ==
    IF e.has_child
    THEN (IF e.non_text_child THEN append_indent(s, d) ELSE <<>>)
         \o STR_close_open \o Take(e.name, e.len) \o <<GT>>
    ELSE STR_self_close

\* pop with 0 <= d, having read frame e at b->depth = d: depth, stack, sink.
pop(d, st, s, e) ==
    [depth |-> d - 1,
     stack |-> IF d < MAX_DEPTH THEN SubSeq(st, 1, d) ELSE st,
     sink  |-> s \o pop_token(s, d - 1, e)]

\* The free(e->name) of pop for frame e, which pop reaches for a frame
\* with a child only: the heap as it is left.
pop_frees(h, e) ==
    IF e.has_child /\ e.name_at # 0
    THEN [h EXCEPT !.blocks[e.name_at] = @ + 1]
    ELSE h

\* The heap after the while loop of bclose from depth d.
pop_all_frees(d, st, h, g) ==
    LET frame(i) == IF i < MAX_DEPTH THEN st[i + 1] ELSE g[i]
        freed(p) == {i \in 0..d : pop_frees(h, frame(i)) # h /\ frame(i).name_at = p}
    IN  [h EXCEPT !.blocks = [p \in DOMAIN h.blocks |-> h.blocks[p] + Cardinality(freed(p))]]

\* The while loop of bclose from depth d, g[i] being what a read of frame
\* i >= MAX_DEPTH finds.
RECURSIVE pop_all(_, _, _, _)
pop_all(d, st, s, g) ==
    IF 0 <= d
    THEN LET e == IF d < MAX_DEPTH THEN st[d + 1] ELSE g[d]
             r == pop(d, st, s, e)
         IN  pop_all(r.depth, r.stack, r.sink, g)
    ELSE [depth |-> d, stack |-> st, sink |-> s]

\* append_attr for one key and value: the bytes appended and whether
\* append_sym_str raised on the key.
append_attr(key, value) ==
    LET k == append_string(key)
    IN  IF k.raised
        THEN [out |-> <<SP>> \o k.out, raised |-> TRUE]
        ELSE [out |-> <<SP>> \o k.out \o STR_eq_quot \o value \o <<QUOT>>,
              raised |-> FALSE]

\* rb_hash_foreach(argv[1], append_attr, b) from attribute i on.
RECURSIVE append_attrs(_, _, _)
append_attrs(attrs, i, out) ==
    IF i > Len(attrs) THEN [out |-> out, raised |-> FALSE]
    ELSE LET a == append_attr(attrs[i].key, attrs[i].value)
         IN  IF a.raised THEN [out |-> out \o a.out, raised |-> TRUE]
             ELSE append_attrs(attrs, i + 1, out \o a.out)

Step == nsteps' = nsteps + 1

\* ----------------------------------------------------------------- actions

\* What every call leaves alone: the sink kind, the indent, the bodies running.
Config == UNCHANGED <<kind, fd, file, indent>>

\* builder_element(name, attributes), with a block when blk.
builder_element(name, attrs, blk) ==
    /\ ~crashed
    /\ \E p \in ParentAt(stack, depth) :
        LET m  == i_am_a_child(depth, p, FALSE)
            s1 == sink \o m.out
            s2 == s1 \o append_indent(s1, depth)
            st == StoreParent(stack, depth, m.e)
            d1 == depth + 1
            a  == append_attrs(attrs, 1, <<>>)
            at == IF NAME_BUF_SIZE <= Len(name) THEN Len(heap.blocks) + 1 ELSE 0
        IN  IF MAX_DEPTH <= d1
            THEN /\ depth' = d1
                 /\ stack' = st
                 /\ sink' = s2
                 /\ heap' = heap
                 /\ blocks' = blocks
                 /\ last' = RetElement("element", "TooDeeplyNested", name, attrs, depth)
            ELSE /\ depth' = d1
                 /\ stack' = Append(st, Element(name, at))
                 /\ heap' = IF at = 0 THEN heap
                            ELSE [heap EXCEPT !.blocks = Append(@, 0)]
                 /\ sink' = s2 \o <<LT>> \o name \o a.out
                 /\ IF a.raised
                    THEN /\ blocks' = blocks
                         /\ last' = RetElement("element", "InvalidCharacter", name, attrs, depth)
                    ELSE IF blk
                    THEN /\ blocks' = Append(blocks, [d0 |-> depth])
                         /\ last' = RetElement("yield", "ok", name, attrs, depth)
                    ELSE /\ blocks' = blocks
                         /\ last' = RetElement("element", "ok", name, attrs, depth)
    /\ Step /\ Config
    /\ UNCHANGED <<fcloses, encoding, crashed>>

\* The body of the innermost element() call returns: pop(b), return Qnil.
block_return ==
    /\ ~crashed
    /\ blocks # <<>>
    /\ LET d0 == blocks[Len(blocks)].d0
       IN  IF pop_underflow(depth)
           THEN /\ UNCHANGED <<depth, stack, sink, heap>>
                /\ last' = Ret("element", "UnbalancedClose", <<>>, d0, "returned")
           ELSE \E e \in FrameAt(stack, depth) :
                  LET r == pop(depth, stack, sink, e)
                  IN  /\ depth' = r.depth
                      /\ stack' = r.stack
                      /\ sink' = r.sink
                      /\ heap' = pop_frees(heap, e)
                      /\ last' = Ret("element", "ok", <<>>, d0, "returned")
    /\ blocks' = SubSeq(blocks, 1, Len(blocks) - 1)
    /\ Step /\ Config
    /\ UNCHANGED <<fcloses, encoding, crashed>>

\* The body of the innermost element() call lets the error of its last call
\* escape: rb_yield does not return and the pop(b) after it is not reached.
block_raise ==
    /\ ~crashed
    /\ blocks # <<>>
    /\ last.status # "ok"
    /\ blocks' = SubSeq(blocks, 1, Len(blocks) - 1)
    /\ last' = Ret("element", last.status, <<>>, blocks[Len(blocks)].d0, "raised")
    /\ Step /\ Config
    /\ UNCHANGED <<fcloses, encoding, depth, stack, sink, heap, crashed>>

\* The common shape of comment, doctype, cdata, text and raw: i_am_a_child,
\* append_indent for markup, then the payload bytes w, all of them written
\* unless the call raised.
child(op, is_text, indented, arg, w, status) ==
    /\ ~crashed
    /\ \E p \in ParentAt(stack, depth) :
        LET m  == i_am_a_child(depth, p, is_text)
            s1 == sink \o m.out
            s2 == IF indented THEN s1 \o append_indent(s1, depth) ELSE s1
        IN  /\ stack' = StoreParent(stack, depth, m.e)
            /\ sink' = s2 \o w
    /\ last' = Ret(op, status, arg, depth, "none")
    /\ Step /\ Config
    /\ UNCHANGED <<fcloses, encoding, depth, blocks, heap, crashed>>

\* builder_comment(text).
builder_comment(text) ==
    child("comment", FALSE, TRUE, text,
          STR_comment_open \o text \o Take(STR_comment_close, 5), "ok")

\* builder_doctype(text).
builder_doctype(text) ==
    child("doctype", FALSE, TRUE, text, STR_doctype_open \o text \o <<GT>>, "ok")

\* builder_cdata(data).
builder_cdata(data) ==
    child("cdata", FALSE, TRUE, data, STR_cdata_open \o data \o STR_cdata_close, "ok")

\* builder_text(text).
builder_text(text) ==
    LET a == append_string(text)
    IN  child("text", TRUE, FALSE, text, a.out,
              IF a.raised THEN "InvalidCharacter" ELSE "ok")

\* builder_raw(text).
builder_raw(text) == child("raw", TRUE, FALSE, text, text, "ok")

\* builder_pop.
builder_pop ==
    /\ ~crashed
    /\ IF pop_underflow(depth)
       THEN /\ UNCHANGED <<depth, stack, sink, heap>>
            /\ last' = Ret("pop", "UnbalancedClose", <<>>, depth, "none")
       ELSE \E e \in FrameAt(stack, depth) :
              LET r == pop(depth, stack, sink, e)
              IN  /\ depth' = r.depth
                  /\ stack' = r.stack
                  /\ sink' = r.sink
                  /\ heap' = pop_frees(heap, e)
                  /\ last' = Ret("pop", "ok", <<>>, depth, "none")
    /\ Step /\ Config
    /\ UNCHANGED <<fcloses, encoding, blocks, crashed>>

\* builder_close: bclose.  fclose on a FILE that is already closed is
\* undefined: the call returns or the process dies.
builder_close ==
    /\ \E g \in [MAX_DEPTH..depth -> GarbageFrames] :
        LET r == pop_all(depth, stack, sink, g)
        IN  /\ depth' = r.depth
            /\ stack' = r.stack
            /\ sink' = r.sink \o <<NL>>
            /\ heap' = pop_all_frees(depth, stack, heap, g)
    /\ ~crashed
    /\ IF file # "NULL"
       THEN /\ fcloses' = fcloses + 1
            /\ crashed' \in (IF fcloses > 0 THEN BOOLEAN ELSE {FALSE})
       ELSE UNCHANGED <<fcloses, crashed>>
    /\ last' = Ret("close", "ok", <<>>, depth, "none")
    /\ Step /\ Config
    /\ UNCHANGED <<encoding, blocks>>

\* A call made with MAX_DEPTH <= b->depth reads or writes past the end of
\* b->stack and the process dies of it.
out_of_bounds_crash ==
    /\ ~crashed
    /\ MAX_DEPTH <= depth
    /\ crashed' = TRUE
    /\ last' = Ret("crash", "crashed", <<>>, depth, "none")
    /\ Step /\ Config
    /\ UNCHANGED <<fcloses, encoding, depth, stack, sink, blocks, heap>>

\* The loop of builder_free: free(e->name) for the frames 0..d-1 whose name
\* is not in e->buf.
builder_free_frees(h, st, d) ==
    [h EXCEPT !.blocks =
        [p \in DOMAIN h.blocks |->
            h.blocks[p] + Cardinality({i \in 1..d : i <= Len(st) /\ st[i].name_at = p})]]

\* builder_free, which the collector calls on a builder no call is running
\* on: buf_cleanup, the loop over the frames, xfree of the struct.  With
\* MAX_DEPTH < b->depth the loop reads past the end of b->stack.
builder_free ==
    /\ ~crashed
    /\ heap.builder = "live"
    /\ blocks = <<>>
    /\ heap' = [builder_free_frees(heap, stack, depth) EXCEPT !.builder = "freed"]
    /\ crashed' \in (IF MAX_DEPTH < depth THEN BOOLEAN ELSE {FALSE})
    /\ last' = Ret("free", "ok", <<>>, depth, "none")
    /\ Step /\ Config
    /\ UNCHANGED <<fcloses, encoding, depth, stack, sink, blocks>>

\* (b->indent * (b->depth + 1)) + 1 leaves the range of int in the
\* append_indent of a call made now: the behaviour is undefined, and where
\* the sum does not wrap around (as append_indent has it) the process dies.
indent_overflow_crash ==
    /\ ~crashed
    /\ 0 # indent
    /\ BufNonEmpty(sink)
    /\ IndentOverflows(indent, depth + 1)
    /\ crashed' = TRUE
    /\ last' = Ret("crash", "crashed", <<>>, depth, "none")
    /\ Step /\ Config
    /\ UNCHANGED <<fcloses, encoding, depth, stack, sink, blocks, heap>>

\* strncpy(b->encoding, v, sizeof(b->encoding)) and the NUL stored in its
\* last byte: at most 63 bytes of v are kept.
ENCODING_SIZE == 64
StoreEncoding(v) == IF Len(v) < ENCODING_SIZE THEN v ELSE Take(v, ENCODING_SIZE - 1)

STR_pi_open == <<LT, QUESTION>>
STR_pi_close == <<QUESTION, GT>>
STR_version == <<SP, 118, 101, 114, 115, 105, 111, 110, EQ, QUOT>>
STR_encoding == <<SP, 101, 110, 99, 111, 100, 105, 110, 103, EQ, QUOT>>
STR_standalone == <<SP, 115, 116, 97, 110, 100, 97, 108, 111, 110, 101, EQ, QUOT>>

\* One option of instruct: nothing when the hash has no such key (v = <<>>),
\* else the label, the value v[1] and a closing quote.
InstructOption(label, v) == IF v = <<>> THEN <<>> ELSE label \o v[1] \o <<QUOT>>

\* builder_instruct(decl, options): args = <<>> for a call without
\* arguments, else <<[decl, version, encoding, standalone]>>, each option
\* <<>> or <<value>>.
builder_instruct(args) ==
    /\ ~crashed
    /\ \E p \in ParentAt(stack, depth) :
        LET m  == i_am_a_child(depth, p, FALSE)
            s1 == sink \o m.out
            s2 == s1 \o append_indent(s1, depth)
        IN  /\ stack' = StoreParent(stack, depth, m.e)
            /\ IF args = <<>>
               THEN /\ sink' = s2 \o STR_xml_decl
                    /\ encoding' = encoding
                    /\ last' = Ret("instruct", "ok", <<>>, depth, "none")
               ELSE LET o == args[1]
                        t == append_string(o.decl)
                    IN  IF t.raised
                        THEN /\ sink' = s2 \o STR_pi_open \o t.out
                             /\ encoding' = encoding
                             /\ last' = Ret("instruct", "InvalidCharacter", o.decl, depth, "none")
                        ELSE /\ sink' = s2 \o STR_pi_open \o t.out
                                        \o InstructOption(STR_version, o.version)
                                        \o InstructOption(STR_encoding, o.encoding)
                                        \o InstructOption(STR_standalone, o.standalone)
                                        \o STR_pi_close
                             /\ encoding' = IF o.encoding = <<>> THEN encoding
                                            ELSE StoreEncoding(o.encoding[1])
                             /\ last' = Ret("instruct", "ok", o.decl, depth, "none")
    /\ Step /\ Config
    /\ UNCHANGED <<fcloses, depth, blocks, heap, crashed>>

\* to_s refusing every builder but the one whose FILE* is set.
to_s_refuses_owned_file_only(f, fl) == "NULL" # fl

\* The test of to_s that raises "can not create a String with a stream or
\* file builder": 0 != b->buf.fd.
to_s_refuses(f, fl) == 0 # f

\* builder_to_s: to_s.  On an empty buffer *(b->buf.tail - 1) is the byte
\* before the buffer, which may or may not be a newline.
builder_to_s ==
    /\ ~crashed
    /\ IF to_s_refuses(fd, file)
       THEN /\ sink' = sink
            /\ last' = Ret("to_s", "UnsupportedOperation", <<>>, depth, "none")
       ELSE \E prev \in (IF sink = <<>> THEN {NUL, NL} ELSE {sink[Len(sink)]}) :
              /\ sink' = IF NL # prev THEN sink \o <<NL>> ELSE sink
              /\ last' = Ret("to_s", "ok", <<>>, depth, "none")
    /\ Step /\ Config
    /\ UNCHANGED <<fcloses, encoding, depth, stack, blocks, heap, crashed>>

\* ------------------------------------------------------------------ inputs

NameA == <<97>>
NameB == <<98>>
NoAttrs == <<>>
AttrId1 == <<[key |-> <<105, 100>>, value |-> <<49>>]>>

\* The element() calls of Spec: a name with or without attributes.
ElementInputs == {[name |-> NameA, attrs |-> NoAttrs], [name |-> NameB, attrs |-> AttrId1]}

\* The text payloads of Spec: empty, one with a byte to escape, one with an
\* illegal byte.
TextInputs == {<<>>, <<104, LT>>, <<104, 1>>}

\* The payload of raw, cdata, comment and doctype in Spec.
Payload == <<120>>

\* The instruct calls of Spec.
InstructInputs ==
    {<<>>, <<[decl |-> <<120, 109, 108>>, version |-> <<<<49>>>>,
              encoding |-> <<<<85>>>>, standalone |-> <<>>]>>}

\* -------------------------------------------------------------- behaviours

\* Every operation of the builder, on small inputs, MaxCalls steps long.
More == nsteps < MaxCalls

Next ==
    \/ More /\ \E i \in ElementInputs, blk \in BOOLEAN : builder_element(i.name, i.attrs, blk)
    \/ More /\ block_return
    \/ More /\ block_raise
    \/ More /\ \E t \in TextInputs : builder_text(t)
    \/ More /\ builder_raw(Payload)
    \/ More /\ builder_cdata(Payload)
    \/ More /\ builder_comment(Payload)
    \/ More /\ builder_doctype(Payload)
    \/ More /\ \E a \in InstructInputs : builder_instruct(a)
    \/ More /\ builder_pop
    \/ More /\ builder_close
    \/ More /\ builder_to_s

Spec == Init /\ [][Next]_vars

\* The bytes SpecText builds text payloads from: NUL, an illegal control
\* byte, a tab, the five bytes that are escaped, a letter, a byte above 127.
TextBytes == {NUL, 1, 9, QUOT, AMP, APOS, LT, GT, 97, 200}

\* All byte strings over S of length at most n.
RECURSIVE SeqsUpTo(_, _)
SeqsUpTo(S, n) ==
    IF n = 0 THEN {<<>>}
    ELSE LET shorter == SeqsUpTo(S, n - 1)
         IN  shorter \cup {Append(t, c) : t \in {u \in shorter : Len(u) = n - 1}, c \in S}

\* n copies of the letter a.
Run(n) == [i \in 1..n |-> 97]

\* Long payloads: a run that fills append_string's local buffer to within a
\* byte of its capacity or beyond, then at most one more byte.
LongTexts ==
    {Run(n) \o t : n \in (LOCAL_BUF_SIZE - 2)..(LOCAL_BUF_SIZE - 2 + LongRunSpan),
                   t \in SeqsUpTo(TextBytes, 1)}

TextPayloads == SeqsUpTo(TextBytes, MaxTextLen) \cup LongTexts

\* One text() call on a fresh builder or under a freshly opened element.
NextText ==
    \/ nsteps = 0 /\ builder_element(NameA, NoAttrs, FALSE)
    \/ last.op # "text" /\ \E t \in TextPayloads : builder_text(t)

SpecText == Init /\ [][NextText]_vars

\* Elements nested up to MAX_DEPTH and beyond: element() alone until the
\* depth is within DeepSlack of the limit, then at most DeepExtra + DeepSlack
\* further steps of element, text, pop and close.
AtLimit == MAX_DEPTH - 1 - DeepSlack <= depth /\ nsteps < MAX_DEPTH + DeepExtra

NextDeep ==
    \/ depth < MAX_DEPTH - 1 - DeepSlack /\ nsteps < MAX_DEPTH + DeepExtra
         /\ builder_element(NameA, NoAttrs, FALSE)
    \/ AtLimit /\ builder_element(NameB, NoAttrs, FALSE)
    \/ AtLimit /\ builder_text(<<>>)
    \/ AtLimit /\ builder_pop
    \/ AtLimit /\ builder_close
    \/ AtLimit /\ out_of_bounds_crash

SpecDeep == Init /\ [][NextDeep]_vars

\* The text payload of SpecAttr: "hi".
TextHi == <<104, 105>>

\* Attribute hashes whose values hold bytes the Escaper replaces or rejects:
\* id="1" then x=<the five special bytes>, and id=<the byte 0x01>.
AttrTwo ==
    <<[key |-> <<105, 100>>, value |-> <<49>>],
      [key |-> <<120>>, value |-> <<LT, AMP, GT, QUOT, APOS>>]>>
AttrIllegal == <<[key |-> <<105, 100>>, value |-> <<1>>]>>
AttrInputs == {NoAttrs, AttrId1, AttrTwo, AttrIllegal}

\* A memory builder without indentation, as Ox::Builder.new makes it.
InitAttr == Init /\ fd = 0 /\ indent = 0

\* Elements with attributes, with and without a body, text and pop on a
\* memory builder without indentation, MaxAttrCalls steps long.
MoreAttr == nsteps < MaxAttrCalls

NextAttr ==
    \/ MoreAttr /\ \E n \in {NameA, NameB}, at \in AttrInputs, blk \in BOOLEAN :
                      builder_element(n, at, blk)
    \/ MoreAttr /\ block_return
    \/ MoreAttr /\ builder_text(TextHi)
    \/ MoreAttr /\ builder_pop

SpecAttr == InitAttr /\ [][NextAttr]_vars

NameOuter == <<111, 117, 116, 101, 114>>
NameInner == <<105, 110, 110, 101, 114>>

\* The :indent options of SpecIndent: 2 spaces a level, 50 spaces a level
\* (more than 128 from the third level on) and 2^30 spaces a level.
IndentInputs == {2, 50, 1073741824}

\* Memory builders with indentation.
InitIndent ==
    InitOf({[kind |-> "memory", fd |-> 0, file |-> "NULL", indent |-> k] : k \in IndentInputs})

\* Markup, text and raw children, pop and close() on a memory builder that
\* indents, MaxIndentCalls steps long.
MoreIndent == nsteps < MaxIndentCalls

NextIndent ==
    \/ MoreIndent /\ \E n \in {NameOuter, NameInner} : builder_element(n, NoAttrs, FALSE)
    \/ MoreIndent /\ builder_text(TextHi)
    \/ MoreIndent /\ builder_raw(Payload)
    \/ MoreIndent /\ builder_cdata(Payload)
    \/ MoreIndent /\ builder_comment(Payload)
    \/ MoreIndent /\ builder_doctype(Payload)
    \/ MoreIndent /\ builder_instruct(<<>>)
    \/ MoreIndent /\ builder_pop
    \/ MoreIndent /\ builder_close
    \/ MoreIndent /\ indent_overflow_crash

SpecIndent == InitIndent /\ [][NextIndent]_vars

\* A name of n bytes.
LongName(n) == [i \in 1..n |-> 110]

\* The names of SpecHeap: the longest that fits e->buf with its NUL, and the
\* shortest that does not.
HeapNames == {LongName(NAME_BUF_SIZE - 1), LongName(NAME_BUF_SIZE)}

\* Elements with long names, text, pop, close() and the release of the
\* builder by the collector, on a memory builder, MaxHeapCalls steps long.
MoreHeap == nsteps < MaxHeapCalls /\ heap.builder = "live"

NextHeap ==
    \/ MoreHeap /\ \E n \in HeapNames : builder_element(n, NoAttrs, FALSE)
    \/ MoreHeap /\ builder_text(TextHi)
    \/ MoreHeap /\ builder_pop
    \/ MoreHeap /\ builder_close
    \/ MoreHeap /\ builder_free

SpecHeap == InitAttr /\ [][NextHeap]_vars

\* ------------------------------------------------------------------ claims

\* The first index from i on at which s holds a byte of S, 0 when none does.
FirstAt(s, i, S) ==
    LET hits == {k \in i..Len(s) : s[k] \in S}
    IN  IF hits = {} THEN 0 ELSE CHOOSE j \in hits : \A k \in hits : j <= k

\* A step that is a call of op (body returns and raises are no calls).
Calls(op) == nsteps' = nsteps + 1 /\ last'.op = op /\ last'.body = "none"

\* Reading the tags of s from byte i on with the names in `open` still
\* unclosed, innermost last: every `</name>` closes the innermost open
\* name, `<name ...>` opens one, `<name .../>` opens and closes one,
\* `<!...>` and `<?...>` are passed over, and nothing is left open at the end.
RECURSIVE TagsBalanced(_, _, _)
TagsBalanced(s, i, open) ==
    LET lt == FirstAt(s, i, {LT})
        gt == FirstAt(s, lt + 1, {GT})
    IN  IF lt = 0 THEN open = <<>>
        ELSE IF gt = 0 THEN FALSE
        ELSE IF s[lt + 1] = SLASH
        THEN /\ open # <<>>
             /\ open[Len(open)] = SubSeq(s, lt + 2, gt - 1)
             /\ TagsBalanced(s, gt + 1, SubSeq(open, 1, Len(open) - 1))
        ELSE IF s[lt + 1] \in {BANG, QUESTION}
        THEN TagsBalanced(s, gt + 1, open)
        ELSE IF s[gt - 1] = SLASH
        THEN TagsBalanced(s, gt + 1, open)
        ELSE LET nameEnd == FirstAt(s, lt + 1, {SP, NL, SLASH, GT})
             IN  TagsBalanced(s, gt + 1, Append(open, SubSeq(s, lt + 1, nameEnd - 1)))

\* C1: when close() has returned, every `<name` the builder has written has
\* exactly one closing token, `/>` or `</name>`, and the closing tokens come
\* innermost first, each `</name>` naming the innermost element still open.
C1_WellFormedAtClose == last.op = "close" => TagsBalanced(sink, 1, <<>>)

\* close() has closed an element b with text inside an element a.
C1_Witness ==
    /\ last.op = "close"
    /\ last.d0 = 1
    /\ sink = <<LT, 97, GT, LT, 98, SP, 105, 100, EQ, QUOT, 49, QUOT, GT,
                LT, SLASH, 98, GT, LT, SLASH, 97, GT, NL>>

\* The bytes a step appends to the sink, which it never rewrites.
Appended == SubSeq(sink', Len(sink) + 1, Len(sink'))
AppendsOnly == Len(sink) <= Len(sink') /\ SubSeq(sink', 1, Len(sink)) = sink

\* s without the newlines and spaces of indentation.
IsInk(c) == c \notin {NL, SP}
Ink(s) == SelectSeq(s, IsInk)

\* A call that appends a child under the innermost open element.
ChildOps == {"element", "yield", "text", "raw", "cdata", "comment", "doctype", "instruct"}
ChildCall ==
    nsteps' = nsteps + 1 /\ last'.op \in ChildOps /\ last'.body \in {"none", "running"}

\* A step whose pop(b) went through: pop(), or the return of a body.
PopStep ==
    /\ nsteps' = nsteps + 1
    /\ last'.status = "ok"
    /\ \/ last'.op = "pop"
       \/ last'.op = "element" /\ last'.body = "returned"

\* The closing token of a frame: `/>` without children, else `</name>`.
ClosingOf(e) ==
    IF e.has_child THEN STR_close_open \o e.name \o <<GT>> ELSE STR_self_close

\* The closing tokens of the frames 0..d of st, innermost first.
RECURSIVE ClosingAll(_, _)
ClosingAll(st, d) == IF d < 0 THEN <<>> ELSE ClosingOf(st[d + 1]) \o ClosingAll(st, d - 1)

C2_Step ==
    /\ AppendsOnly
    \* a new frame has no child, and its tag is left without a terminator
    /\ Len(stack') > Len(stack) =>
         /\ ~stack'[Len(stack')].has_child
         /\ sink'[Len(sink')] \notin {GT, SLASH}
    \* the first child call under a frame writes `>`, a later one does not
    /\ ChildCall /\ 0 <= depth /\ depth < MAX_DEPTH =>
         /\ stack'[depth + 1].has_child
         /\ Appended # <<>> => (Appended[1] = GT) = ~stack[depth + 1].has_child
         /\ ~stack[depth + 1].has_child => Appended # <<>>
    \* only a child call changes a frame, and only the innermost one
    /\ \A i \in 1..Len(stack') :
         i <= Len(stack) /\ ~(ChildCall /\ i = depth + 1) => stack'[i] = stack[i]
    \* pop closes the innermost frame by its has_child
    /\ PopStep /\ depth < MAX_DEPTH => Ink(Appended) = ClosingOf(stack[depth + 1])
    \* close() closes every frame by its has_child, innermost first
    /\ Calls("close") /\ depth < MAX_DEPTH => Ink(Appended) = ClosingAll(stack, depth)

\* C2: an element under which no child call (element, text, raw, cdata,
\* comment, doctype, instruct; an empty text too) was made between its open
\* and its pop is closed by `/>`; the first child call made under an element
\* writes `>` and its pop then writes `</name>`.
C2_SelfCloseOrExpanded == [][C2_Step]_vars

\* element a, text of length 0, pop: <a></a>.
C2_Witness ==
    /\ last.op = "pop"
    /\ last.status = "ok"
    /\ sink = <<LT, 97, GT, LT, SLASH, 97, GT>>

\* C3: an element() call made with 128 elements open fails with
\* TooDeeplyNested and leaves depth, every frame and the sink as they were.
C3_FailedElementChangesNothing ==
    [][Calls("element") /\ depth = MAX_DEPTH - 1 =>
         /\ last'.status = "TooDeeplyNested"
         /\ depth' = depth
         /\ stack' = stack
         /\ sink' = sink]_vars

\* C4: in every reachable state -1 <= depth < MAX_DEPTH.
C4_DepthInRange == -1 <= depth /\ depth < MAX_DEPTH

\* C5: pop() with no element open raises UnbalancedClose and changes
\* nothing of the builder, whatever was called before it.
C5_PopOnEmptyChangesNothing ==
    [][Calls("pop") /\ depth = -1 =>
         /\ last'.status = "UnbalancedClose"
         /\ UNCHANGED <<kind, fd, file, fcloses, indent, encoding, depth, stack,
                        sink, blocks, heap, crashed>>]_vars

\* pop() has failed on a builder that close() had finished.
C5_Witness ==
    /\ last.op = "pop"
    /\ last.status = "UnbalancedClose"
    /\ depth = -1
    /\ sink = <<LT, 97, SLASH, GT, NL>>

\* C6: a close() that follows a close() appends nothing to the sink and
\* does not call fclose on the owned file again.
C6_SecondCloseChangesNothing ==
    [][last.op = "close" /\ Calls("close") =>
         sink' = sink /\ fcloses' = fcloses]_vars

\* The bytes the claims call illegal: 0x00-0x08, 0x0B, 0x0C, 0x0E-0x1F.
IsIllegal(c) == c \in (0..8) \cup {11, 12} \cup (14..31)
HasIllegal(t) == \E i \in 1..Len(t) : IsIllegal(t[i])
IsSpecial(c) == c \in {QUOT, AMP, APOS, LT, GT}
HasSpecial(t) == \E i \in 1..Len(t) : IsSpecial(t[i])

\* C7: text(value) fails with InvalidCharacter whenever value holds an
\* illegal byte.
C7_IllegalByteRaises ==
    last.op = "text" /\ HasIllegal(last.arg) => last.status = "InvalidCharacter"

\* Whether x holds the bytes of e from index i on.
HasAt(x, i, e) == i + Len(e) - 1 <= Len(x) /\ SubSeq(x, i, i + Len(e) - 1) = e

\* x from byte i on with each of the five entities replaced by its byte.
RECURSIVE Unescape(_, _)
Unescape(x, i) ==
    IF i > Len(x) THEN <<>>
    ELSE IF x[i] # AMP
    THEN LET amp == FirstAt(x, i, {AMP})
             j   == IF amp = 0 THEN Len(x) + 1 ELSE amp
         IN  SubSeq(x, i, j - 1) \o Unescape(x, j)
    ELSE IF HasAt(x, i, STR_quot) THEN <<QUOT>> \o Unescape(x, i + Len(STR_quot))
    ELSE IF HasAt(x, i, STR_amp) THEN <<AMP>> \o Unescape(x, i + Len(STR_amp))
    ELSE IF HasAt(x, i, STR_apos) THEN <<APOS>> \o Unescape(x, i + Len(STR_apos))
    ELSE IF HasAt(x, i, STR_lt) THEN <<LT>> \o Unescape(x, i + Len(STR_lt))
    ELSE IF HasAt(x, i, STR_gt) THEN <<GT>> \o Unescape(x, i + Len(STR_gt))
    ELSE <<AMP>> \o Unescape(x, i + 1)

\* What a text() step appends after the `>` it may write for the parent.
TextWritten ==
    LET mark == IF 0 <= depth /\ depth < MAX_DEPTH /\ ~stack[depth + 1].has_child
                THEN 1 ELSE 0
    IN  SubSeq(sink', Len(sink) + mark + 1, Len(sink'))

\* C8: text(value) with no illegal byte in value succeeds; what it appends
\* after the parent's `>` gives value back, byte for byte, when the five
\* entities are replaced by their bytes, and is value itself when value
\* holds none of & < > " '.
C8_EscapeRoundTrip ==
    [][Calls("text") /\ ~HasIllegal(last'.arg) =>
         /\ last'.status = "ok"
         /\ AppendsOnly
         /\ Unescape(TextWritten, 1) = last'.arg
         /\ ~HasSpecial(last'.arg) => TextWritten = last'.arg]_vars

\* text("&<a") under a fresh element a: <a>&amp;&lt;a.
C8_Witness ==
    /\ last.op = "text"
    /\ last.status = "ok"
    /\ last.arg = <<AMP, LT, 97>>
    /\ sink = <<LT, 97, GT>> \o STR_amp \o STR_lt \o <<97>>

\* C9: when element() with a body that returned normally returns, the frame
\* it pushed is popped: depth is what it was before the call.
C9_BodyReturnPopsItsFrame ==
    last.op = "element" /\ last.body = "returned" /\ last.status = "ok"
        => depth = last.d0

\* C10: when the body of element() exits with an error, the frame the call
\* pushed is popped all the same: depth is what it was before the call.
C10_BodyErrorPopsItsFrame ==
    last.op = "element" /\ last.body = "raised" => depth = last.d0

\* The bytes of `<a id="1">hi<b`: what element("a", {id: "1"}), text("hi")
\* and element("b") have written when the body of the first call returns.
ScenarioBody ==
    <<LT, 97, SP, 105, 100, EQ, QUOT, 49, QUOT, GT, 104, 105, LT, 98>>

\* element("a", {id: "1"}) { text("hi"); element("b") } has returned: the
\* call entered on the fresh builder had a body, the body made two calls and
\* wrote ScenarioBody (element("b") without attributes), and the fourth step
\* is the return of that call.
ScenarioReturned ==
    /\ last.op = "element"
    /\ last.body = "returned"
    /\ last.d0 = -1
    /\ nsteps = 4
    /\ Len(sink) > Len(ScenarioBody)
    /\ SubSeq(sink, 1, Len(ScenarioBody)) = ScenarioBody
    /\ sink[Len(ScenarioBody) + 1] # SP

\* C11: on a fresh memory builder with indent 0, when
\* element("a", {id: "1"}) { text("hi"); element("b") } returns the sink
\* holds exactly `<a id="1">hi<b/></a>` and no element is open.
C11_ScenarioOutput ==
    ScenarioReturned =>
        /\ sink = ScenarioBody \o STR_self_close \o STR_close_open \o NameA \o <<GT>>
        /\ depth = -1

\* min(k * n, 128) for 0 < k and 0 <= n, the number of spaces C12 states.
CappedSpaces(k, n) ==
    IF n > 0 /\ k >= MAX_DEPTH THEN MAX_DEPTH
    ELSE IF k * n > MAX_DEPTH THEN MAX_DEPTH
    ELSE k * n

\* A call that writes markup: element, comment, doctype, cdata, instruct.
MarkupOps == {"element", "yield", "comment", "doctype", "cdata", "instruct"}
MarkupCall ==
    nsteps' = nsteps + 1 /\ last'.op \in MarkupOps /\ last'.body \in {"none", "running"}

\* How many bytes a child call writes for its parent: the `>` of the first
\* child under a frame.
MarkLen == IF 0 <= depth /\ depth < MAX_DEPTH /\ ~stack[depth + 1].has_child THEN 1 ELSE 0

\* The sink after element outer, element inner and close() with indent 2.
OuterInnerClosed ==
    <<LT>> \o NameOuter \o <<GT, NL, SP, SP, LT>> \o NameInner \o STR_self_close
    \o <<NL>> \o STR_close_open \o NameOuter \o <<GT, NL>>

C12_Step ==
    /\ MarkupCall /\ fd = 0 /\ indent > 0 /\ depth + 1 < MAX_DEPTH =>
         LET lead == IF sink = <<>> THEN <<>>
                     ELSE <<NL>> \o Spaces(CappedSpaces(indent, depth + 1))
             from == MarkLen + 1
             upto == MarkLen + Len(lead)
         IN  /\ Len(Appended) > upto
             /\ SubSeq(Appended, from, upto) = lead
             /\ Appended[upto + 1] = LT
    /\ /\ fd = 0 /\ indent = 2 /\ nsteps = 2 /\ Calls("close")
       /\ Len(stack) = 2
       /\ stack[1].name = NameOuter /\ stack[2].name = NameInner
       => sink' = OuterInnerClosed

\* C12: on a memory builder with indent k > 0, the markup that element,
\* comment, doctype, cdata and instruct write is preceded by a newline and
\* min(k * (depth + 1), 128) spaces when the sink is not empty, depth being
\* the depth at the call, and by nothing when the sink is empty; with k = 2,
\* element outer, element inner, close() give `<outer>\n  <inner/>\n</outer>\n`.
C12_IndentBeforeMarkup == [][C12_Step]_vars

\* value with each of & < > " ' replaced by its named entity, as C13 has it.
RECURSIVE EscapedValue(_)
EscapedValue(v) ==
    IF v = <<>> THEN <<>>
    ELSE (CASE Head(v) = AMP -> <<AMP, 97, 109, 112, SEMI>>
            [] Head(v) = LT -> <<AMP, 108, 116, SEMI>>
            [] Head(v) = GT -> <<AMP, 103, 116, SEMI>>
            [] Head(v) = QUOT -> <<AMP, 113, 117, 111, 116, SEMI>>
            [] Head(v) = APOS -> <<AMP, 97, 112, 111, 115, SEMI>>
            [] OTHER -> <<Head(v)>>)
         \o EscapedValue(Tail(v))

\* The attributes as C13 has them written: ` key="value'"` for each.
RECURSIVE EscapedAttrs(_)
EscapedAttrs(attrs) ==
    IF attrs = <<>> THEN <<>>
    ELSE <<SP>> \o Head(attrs).key \o <<EQ, QUOT>> \o EscapedValue(Head(attrs).value)
         \o <<QUOT>> \o EscapedAttrs(Tail(attrs))

\* An element() call that got as far as its attributes.
ElementCall ==
    /\ nsteps' = nsteps + 1
    /\ last'.op \in {"element", "yield"}
    /\ last'.body \in {"none", "running"}
    /\ last'.status # "TooDeeplyNested"

C13_Step ==
    ElementCall /\ indent = 0 =>
        LET attrs == last'.attrs
        IN  IF \E i \in 1..Len(attrs) : HasIllegal(attrs[i].value)
            THEN last'.status = "InvalidCharacter"
            ELSE /\ last'.status = "ok"
                 /\ SubSeq(Appended, MarkLen + 1, Len(Appended))
                      = <<LT>> \o last'.arg \o EscapedAttrs(attrs)

\* C13: element(name, attributes) writes ` key="value'"` for each attribute,
\* value' being the value with each of & < > " ' replaced by its entity, and
\* fails with InvalidCharacter when a value holds an illegal control byte.
C13_AttributesEscaped == [][C13_Step]_vars

\* A comment as C14 has it: `<!-- `, the text, ` -->`.
StandardComment(text) == <<LT, BANG, DASH, DASH, SP>> \o text \o <<SP, DASH, DASH, GT>>

\* C14: comment(text) appends, after the `>` it may write for the parent and
\* the indentation, exactly `<!-- `, the text as it is and ` -->`.
C14_CommentTerminator ==
    [][Calls("comment") /\ depth < MAX_DEPTH =>
         LET body == StandardComment(last'.arg)
             n    == Len(Appended) - Len(body)
         IN  /\ MarkLen <= n
             /\ SubSeq(Appended, n + 1, Len(Appended)) = body
             /\ \A i \in (MarkLen + 1)..n : Appended[i] \in {NL, SP}]_vars

\* C15: to_s on a builder made by builder_file or builder_io fails with
\* UnsupportedOperation, in every state, and leaves the builder as it was;
\* on a builder made by builder_new it never fails with that error.
C15_StringifyOnlyFromMemory ==
    [][Calls("to_s") =>
         IF kind \in {"file", "descriptor"}
         THEN /\ last'.status = "UnsupportedOperation"
              /\ UNCHANGED <<kind, fd, file, fcloses, indent, encoding, depth, stack,
                             sink, blocks, heap, crashed>>
         ELSE last'.status # "UnsupportedOperation"]_vars

\* to_s has failed on a descriptor builder with an element open whose tag
\* is still unterminated.
C15_Witness ==
    /\ last.op = "to_s"
    /\ last.status = "UnsupportedOperation"
    /\ kind = "descriptor"
    /\ depth = 0
    /\ ~stack[1].has_child
    /\ sink = <<LT, 97>>

\* What a step does to the non_text_child flags when the calls of the ops
\* in `sets` are the ones that set the flag of the innermost frame and the
\* calls of the ops in `keeps` leave it as it is: a new frame starts with
\* the flag false, and no step changes the flag of another frame.
NonTextChildStep(sets, keeps) ==
    /\ Len(stack') > Len(stack) => ~stack'[Len(stack')].non_text_child
    /\ ChildCall /\ 0 <= depth /\ depth < MAX_DEPTH =>
         /\ last'.op \in sets => stack'[depth + 1].non_text_child
         /\ last'.op \in keeps =>
              stack'[depth + 1].non_text_child = stack[depth + 1].non_text_child
    /\ \A i \in 1..Len(stack') :
         i <= Len(stack) /\ ~(ChildCall /\ i = depth + 1) =>
             stack'[i].non_text_child = stack[i].non_text_child

\* C16 as stated: a frame's non_text_child is true once an element, comment,
\* cdata or raw child has been appended under it, and false as long as only
\* text children have been.
C16_NonTextChildIncludesRaw ==
    [][NonTextChildStep({"element", "yield", "comment", "cdata", "raw"}, {"text"})]_vars

\* C16 amended: a frame's non_text_child is true once element, comment,
\* cdata, doctype or instruct has been called under it, and false as long
\* as only text and raw have been.
C16_NonTextChildExcludesRaw ==
    [][NonTextChildStep({"element", "yield", "comment", "cdata", "doctype", "instruct"},
                        {"text", "raw"})]_vars

\* text then raw under element a: the flag is still false.
C16_Witness ==
    /\ last.op = "raw"
    /\ depth = 0
    /\ sink = <<LT, 97, GT>> \o <<104>> \o STR_lt \o Payload
    /\ stack[1].has_child
    /\ ~stack[1].non_text_child

\* The last index up to i at which s holds byte c, 0 when there is none.
LastAt(s, i, c) ==
    LET hits == {k \in 1..i : s[k] = c}
    IN  IF hits = {} THEN 0 ELSE CHOOSE j \in hits : \A k \in hits : k <= j

\* No tag of s is terminated twice: every `>` of s is the first one after
\* the `<` before it.  (The payloads written hold no `<` and no `>`.)
TerminatedOnce(s) ==
    \A j \in 1..Len(s) :
        s[j] = GT =>
            LET p == LastAt(s, j, LT)
            IN  p > 0 /\ \A k \in p..(j - 1) : s[k] # GT

\* The frames in the sink: the opening tag of the innermost frame is the
\* last tag written and has no terminator as long as the frame has no
\* child; every frame below the innermost one has a child.
TerminatorsOfFrames ==
    /\ TerminatedOnce(sink)
    /\ 0 <= depth /\ depth < MAX_DEPTH /\ ~stack[depth + 1].has_child =>
         LET p == LastAt(sink, Len(sink), LT)
         IN  /\ p > 0
             /\ HasAt(sink, p + 1, stack[depth + 1].name)
             /\ \A k \in p..Len(sink) : sink[k] # GT
    /\ \A i \in 1..(Len(stack) - 1) : stack[i].has_child

\* Whether s holds `/>`.
HasSelfClose(s) == \E i \in 1..(Len(s) - 1) : s[i] = SLASH /\ s[i + 1] = GT

C17_Step ==
    /\ AppendsOnly
    \* `>` is written by the call that turns has_child to true, and only then
    /\ ChildCall /\ 0 <= depth /\ depth < MAX_DEPTH =>
         /\ stack'[depth + 1].has_child
         /\ (Appended # <<>> /\ Appended[1] = GT) <=> ~stack[depth + 1].has_child
    /\ ChildCall /\ depth = -1 => (Appended = <<>> \/ Appended[1] \notin {GT, SLASH})
    \* has_child never goes back to false and changes in no other step
    /\ \A i \in 1..Len(stack') :
         i <= Len(stack) =>
            /\ stack[i].has_child => stack'[i].has_child
            /\ stack'[i].has_child /\ ~stack[i].has_child => ChildCall /\ i = depth + 1
    \* `/>` is what pop writes for a frame without a child, and the frame is gone
    /\ PopStep /\ depth < MAX_DEPTH =>
         /\ Len(stack') = Len(stack) - 1
         /\ IF stack[depth + 1].has_child
            THEN ~HasSelfClose(Appended) /\ Ink(Appended) = ClosingOf(stack[depth + 1])
            ELSE Appended = STR_self_close
    /\ Calls("close") /\ depth < MAX_DEPTH =>
         stack' = <<>> /\ Ink(Appended) = ClosingAll(stack, depth)
    \* no other step writes a terminator
    /\ ~ChildCall /\ ~PopStep /\ ~Calls("close") =>
         \A i \in 1..Len(Appended) : Appended[i] \notin {GT, SLASH}

\* C17: the opening tag of a frame gets one terminator in its lifetime:
\* none before the first child call or the pop, `>` at the call that turns
\* has_child to true and at no other, `/>` at the pop of a frame whose
\* has_child is false and at no other, never both and never one twice.
C17_OneTerminatorPerFrame == []TerminatorsOfFrames /\ [][C17_Step]_vars

\* element a, raw x twice, pop: <a>xx</a>.
C17_Witness ==
    /\ last.op = "pop"
    /\ last.status = "ok"
    /\ sink = <<LT, 97, GT>> \o Payload \o Payload \o <<LT, SLASH, 97, GT>>

\* The heap blocks no frame of the stack holds: the names of frames that
\* were popped.
Released(p) == \A i \in 1..Len(stack) : stack[i].name_at # p

\* C18: a heap-allocated name is freed once: by the pop of its frame, with
\* or without children, or by builder_free for the frames it finds open; no
\* name is freed twice and none is left allocated after builder_free.
C18_HeapNamesFreedOnce ==
    \A p \in DOMAIN heap.blocks :
        /\ heap.blocks[p] <= 1
        /\ Released(p) => heap.blocks[p] = 1
        /\ heap.builder = "freed" => heap.blocks[p] = 1

\* The positions in s, from byte i on, of the `<` of the opening tags that
\* are not closed yet, outermost first, `open` being those found before i:
\* `</` closes the innermost one, `<!` and `<?` open nothing, and a tag
\* whose `>` follows a `/` is closed where it stands.
RECURSIVE OpenStarts(_, _, _)
OpenStarts(s, i, open) ==
    LET lt == FirstAt(s, i, {LT})
        gt == FirstAt(s, lt + 1, {GT, LT})
    IN  IF lt = 0 THEN open
        ELSE IF s[lt + 1] = SLASH
        THEN OpenStarts(s, lt + 1, SubSeq(open, 1, Len(open) - 1))
        ELSE IF s[lt + 1] \in {BANG, QUESTION}
        THEN OpenStarts(s, lt + 1, open)
        ELSE IF gt # 0 /\ s[gt] = GT /\ s[gt - 1] = SLASH
        THEN OpenStarts(s, lt + 1, open)
        ELSE OpenStarts(s, lt + 1, Append(open, lt))

\* How many spaces stand in s right before position p.
SpacesBefore(s, p) ==
    LET others == {k \in 1..(p - 1) : s[k] # SP}
    IN  IF others = {} THEN p - 1
        ELSE (p - 1) - (CHOOSE j \in others : \A k \in others : k <= j)

\* What C19 has pop write for frame e, whose opening tag had n spaces
\* before it: `/>` without a child, `</name>` after a newline and n spaces
\* with a non-text child, `</name>` alone with text (or raw) children only.
IndentedClosing(e, n) ==
    IF ~e.has_child THEN STR_self_close
    ELSE (IF e.non_text_child THEN <<NL>> \o Spaces(n) ELSE <<>>)
         \o STR_close_open \o e.name \o <<GT>>

\* IndentedClosing for the frames d, d-1, .. 0 of the stack, their opening
\* tags being at the positions `starts` of the sink.
RECURSIVE IndentedClosings(_, _)
IndentedClosings(d, starts) ==
    IF d < 0 THEN <<>>
    ELSE IndentedClosing(stack[d + 1], SpacesBefore(sink, starts[d + 1]))
         \o IndentedClosings(d - 1, starts)

C19_Step ==
    LET starts == OpenStarts(sink, 1, <<>>)
    IN  /\ PopStep /\ fd = 0 /\ indent > 0 /\ depth < MAX_DEPTH =>
             /\ Len(starts) = depth + 1
             /\ Appended = IndentedClosing(stack[depth + 1],
                                           SpacesBefore(sink, starts[depth + 1]))
        /\ Calls("close") /\ fd = 0 /\ indent > 0 /\ depth < MAX_DEPTH =>
             /\ Len(starts) = depth + 1
             /\ Appended = IndentedClosings(depth, starts) \o <<NL>>

\* C19: on a memory builder with indent > 0, pop (and the pops of close())
\* writes `</name>` for a frame with a non-text child after a newline and as
\* many spaces as stand before the frame's opening tag in the sink, and
\* writes `</name>` alone for a frame whose children are text only.
C19_ClosingTagIndent == [][C19_Step]_vars

\* indent 2; element outer, inner, inner, then two pops: the second pop
\* closes the first inner, which has an element child, under two spaces.
C19_Witness ==
    /\ indent = 2
    /\ last.op = "pop"
    /\ depth = 0
    /\ sink = <<LT>> \o NameOuter \o <<GT, NL, SP, SP, LT>> \o NameInner
              \o <<GT, NL, SP, SP, SP, SP, LT>> \o NameInner \o STR_self_close
              \o <<NL, SP, SP>> \o STR_close_open \o NameInner \o <<GT>>

\* The expansion cost C20 gives a byte: 1 for a safe byte, the length of
\* its entity for one of " & ' < >, 10 for an illegal byte.
ExpansionCost(c) ==
    IF IsIllegal(c) THEN 10
    ELSE IF c \in {QUOT, APOS} THEN 6
    ELSE IF c = AMP THEN 5
    ELSE IF c \in {LT, GT} THEN 4
    ELSE 1

\* The sum of the expansion costs of the bytes of t, cost by cost.
CostCount(t, k) == Cardinality({i \in 1..Len(t) : ExpansionCost(t[i]) = k})
EscapedLength(t) ==
    CostCount(t, 1) + (4 * CostCount(t, 4)) + (5 * CostCount(t, 5))
    + (6 * CostCount(t, 6)) + (10 * CostCount(t, 10))

\* C20: for the value of every text() call, xml_str_len returns the sum of
\* the expansion costs of its bytes, and append_string copies the value
\* verbatim exactly when no byte of it needs substitution.
C20_FirstPassIsEscapedLength ==
    last.op = "text" =>
        /\ xml_str_len(last.arg) = EscapedLength(last.arg)
        /\ copies_verbatim(last.arg) <=> ~HasIllegal(last.arg) /\ ~HasSpecial(last.arg)

=============================================================================
